---- MODULE Spec2Model ----
(***************************************************************************)
(* Model of the Battleships server (src/server.py) and of the match        *)
(* protocol (src/battleship.py).                                           *)
(*                                                                         *)
(* A connection id stands for the socket and the rfile/wfile made from it. *)
(* A player tuple (conn, rfile, wfile, username) is the record [c, u].     *)
(* A match id stands for the pair of Board objects created by one fresh    *)
(* start of run_two_player_game_online; snapshots and resumed calls hold   *)
(* references to the same pair, as the Python objects are shared.          *)
(*                                                                         *)
(* server.py:249 and server.py:112 apply .strip() to the value returned by *)
(* recv_with_checksum, which is a pair (seq, plaintext) or None.  Read     *)
(* literally both lines raise AttributeError for every frame, so that no   *)
(* username is ever admitted.  The model reads them as unpacking the pair  *)
(* first (a valid frame yields its plaintext); an invalid frame (None)     *)
(* raises in either reading and ends the thread.                           *)
(***************************************************************************)
EXTENDS Integers, Sequences, FiniteSets, TLC

\* ------------------------------------------------------------------ bounds
BOARD_SIZE == 2          \* side of the grid (battleship.py:16 has 10)
MaxShots == 3            \* cap on the shots resolved in one match
MaxConn == 3             \* connections accepted by main()
RECONNECT_TIMEOUT == 2   \* polls of the grace window (server.py:11 has 60)
MaxSevered == 1          \* connections whose peer goes away
MaxCalls == 2            \* calls of timed_input on one rfile
MaxLines == 2            \* lines a player types into one rfile

\* the fleet placed on each board (battleship.py:17 has sizes 5,4,3,3,2)
SHIPS == <<2>>

\* the usernames the clients choose from
Names == {"a", "b", "c", "d"}
\* the connections main() accepts in the runs of the whole server
Accepted == 1..MaxConn
\* every connection a run can hold (the run of five clients needs two more)
Conns == 1..(MaxConn + 2)
MatchIds == 1..MaxConn
HCIds == 1..(MaxConn - 1)
Threads == ({"hc"} \X HCIds) \cup ({"lm"} \X Conns)
NoState == [m |-> 0, turn |-> 0, moves |-> <<0, 0>>]
NoBoards == <<>>
\* lobby_lock when no thread holds it (held, it names the holding thread)
Unlocked == <<>>
\* timed_input's result when no line was decoded within TIMEOUT
None == <<"None">>
\* no function call under study (call holds one call of a pure function:
\* its name, its argument and, once made, its result)
NoCall == [fn |-> "none", arg |-> <<>>, pc |-> "idle", ret |-> <<>>]

VARIABLES conn, boards, inst, game_states, sent, lobby, active_players,
          current_match, game_lock, lm, hc, spectator_threads, call,
          lobby_lock

vars == <<conn, boards, inst, game_states, sent, lobby, active_players,
          current_match, game_lock, lm, hc, spectator_threads, call,
          lobby_lock>>

\* ------------------------------------------------------------- characters
\* the printable ASCII characters, from code 32 on (three of them by name)
Ascii ==
    <<" ", "!", "DQUOTE", "#", "$", "%", "&", "'", "(", ")", "*", "+", ",", "-", ".",
      "/", "0", "1", "2", "3", "4", "5", "6", "7", "8", "9", ":", ";", "<", "=",
      ">", "?", "@", "A", "B", "C", "D", "E", "F", "G", "H", "I", "J", "K", "L",
      "M", "N", "O", "P", "Q", "R", "S", "T", "U", "V", "W", "X", "Y", "Z", "[",
      "BACKSLASH", "]", "^", "_", "BACKTICK", "a", "b", "c", "d", "e", "f", "g", "h", "i", "j",
      "k", "l", "m", "n", "o", "p", "q", "r", "s", "t", "u", "v", "w", "x", "y",
      "z", "{", "|", "}", "~">>
Chars == {Ascii[n] : n \in 1..Len(Ascii)}
OrdTable ==
    [ch \in Chars |-> 31 + (CHOOSE n \in 1..Len(Ascii) : Ascii[n] = ch)]
Ord(ch) == OrdTable[ch]
ChrTable == [n \in 32..(31 + Len(Ascii)) |-> Ascii[n - 31]]
Chr(n) == ChrTable[n]

Upper(ch) == IF Ord(ch) >= 97 /\ Ord(ch) <= 122 THEN Chr(Ord(ch) - 32) ELSE ch
Lower(ch) == IF Ord(ch) >= 65 /\ Ord(ch) <= 90 THEN Chr(Ord(ch) + 32) ELSE ch
IsDigit(ch) == Ord(ch) >= 48 /\ Ord(ch) <= 57

StrUpper(s) == [k \in 1..Len(s) |-> Upper(s[k])]
StrLower(s) == [k \in 1..Len(s) |-> Lower(s[k])]

RECURSIVE LStrip(_)
LStrip(s) == IF s # <<>> /\ Head(s) = " " THEN LStrip(Tail(s)) ELSE s
RECURSIVE RStrip(_)
RStrip(s) ==
    IF s # <<>> /\ s[Len(s)] = " " THEN RStrip(SubSeq(s, 1, Len(s) - 1)) ELSE s
Strip(s) == RStrip(LStrip(s))

\* int(): the value of a digit string, "ValueError" for anything else
RECURSIVE DigitsValue(_, _)
DigitsValue(s, acc) ==
    IF s = <<>> THEN acc ELSE DigitsValue(Tail(s), 10 * acc + (Ord(Head(s)) - 48))
PyInt(s) ==
    LET t == Strip(s)
    IN IF t # <<>> /\ \A k \in 1..Len(t) : IsDigit(t[k])
       THEN [ok |-> TRUE, v |-> DigitsValue(t, 0)]
       ELSE [ok |-> FALSE, v |-> 0]

\* parse_coordinate: [exc, row, col]
parse_coordinate(coord_str) ==
    LET s == StrUpper(Strip(coord_str))
    IN IF s = <<>> THEN [exc |-> "IndexError", row |-> 0, col |-> 0]
       ELSE LET n == PyInt(Tail(s))
            IN IF ~n.ok
               THEN [exc |-> "ValueError", row |-> 0, col |-> 0]
               ELSE [exc |-> "none", row |-> Ord(Head(s)) - Ord("A"),
                     col |-> n.v - 1]

\* ------------------------------------------------------------------ Board
Idx == 0..(BOARD_SIZE - 1)
Cells == Idx \X Idx

\* Python list indexing: negative indices count from the end
InRange(k) == k >= -BOARD_SIZE /\ k < BOARD_SIZE
PyIndex(k) == IF k < 0 THEN k + BOARD_SIZE ELSE k

ShipCells(row, col, ship_size, orientation) ==
    IF orientation = 0
    THEN {<<row, c>> : c \in col..(col + ship_size - 1)}
    ELSE {<<r, col>> : r \in row..(row + ship_size - 1)}

can_place_ship(hidden, row, col, ship_size, orientation) ==
    /\ IF orientation = 0 THEN col + ship_size <= BOARD_SIZE
                          ELSE row + ship_size <= BOARD_SIZE
    /\ \A p \in ShipCells(row, col, ship_size, orientation) : hidden[p] = "."

EmptyBoard ==
    [hidden |-> [p \in Cells |-> "."], display |-> [p \in Cells |-> "."],
     placed_ships |-> <<>>]

do_place_ship(b, row, col, ship_size, orientation) ==
    LET occ == ShipCells(row, col, ship_size, orientation)
    IN [b EXCEPT !.hidden = [p \in Cells |-> IF p \in occ THEN "S" ELSE @[p]],
                 !.placed_ships = Append(@, occ)]

\* place_ships_randomly: every board the random draws can produce
RECURSIVE PlaceFrom(_, _)
PlaceFrom(bs, k) ==
    IF k > Len(SHIPS) THEN bs
    ELSE PlaceFrom(
           {do_place_ship(b, rc[1], rc[2], SHIPS[k], o) :
              <<b, rc, o>> \in {x \in bs \X Cells \X {0, 1} :
                 can_place_ship(x[1].hidden, x[2][1], x[2][2], SHIPS[k], x[3])}},
           k + 1)
Placements == PlaceFrom({EmptyBoard}, 1)

_mark_hit_and_check_sunk(ships, p) ==
    LET hitters == {k \in 1..Len(ships) : p \in ships[k]}
    IN IF hitters = {} THEN [ships |-> ships, sunk |-> FALSE]
       ELSE LET k == CHOOSE x \in hitters : \A y \in hitters : x <= y
            IN [ships |-> [ships EXCEPT ![k] = @ \ {p}],
                sunk |-> (ships[k] \ {p}) = {}]

\* fire_at(row, col) on indices already known to be in range; the grids are
\* indexed as Python lists, the ships' positions are compared with (row, col)
fire_at(b, row, col) ==
    LET p == <<PyIndex(row), PyIndex(col)>>
        cell == b.hidden[p]
    IN IF cell = "S"
       THEN LET mk == _mark_hit_and_check_sunk(b.placed_ships, <<row, col>>)
            IN [result |-> "hit", sunk |-> mk.sunk,
                board |-> [b EXCEPT !.hidden[p] = "X", !.display[p] = "X",
                                    !.placed_ships = mk.ships]]
       ELSE IF cell = "."
       THEN [result |-> "miss", sunk |-> FALSE,
             board |-> [b EXCEPT !.hidden[p] = "o", !.display[p] = "o"]]
       ELSE [result |-> "already_shot", sunk |-> FALSE, board |-> b]

all_ships_sunk(b) == \A k \in 1..Len(b.placed_ships) : b.placed_ships[k] = {}

\* send_board, and the per-player part of
\* broadcast_game_state_to_spectators: the rows A, B, ... of the grid, each
\* the row label followed by the cells of display_grid
row_label == [r \in 1..BOARD_SIZE |-> Chr(65 + (r - 1))]
send_boardHidden(b) ==
    [r \in 1..BOARD_SIZE |->
        [c \in 1..(BOARD_SIZE + 1) |->
            IF c = 1 THEN row_label[r] ELSE b.hidden[<<r - 1, c - 2>>]]]
send_board(b) ==
    [r \in 1..BOARD_SIZE |->
        [c \in 1..(BOARD_SIZE + 1) |->
            IF c = 1 THEN row_label[r] ELSE b.display[<<r - 1, c - 2>>]]]

\* ------------------------------------------------------------ file objects
\* a write to (or flush of) a connection's wfile: what it raises
ConnExc(c) ==
    IF conn[c] = "open" THEN "none"
    ELSE IF conn[c] = "severed" THEN "OSError" ELSE "ValueError"

\* the exception of the first failing write of a sequence of writes
RECURSIVE FirstExc(_)
FirstExc(cs) ==
    IF cs = <<>> THEN "none"
    ELSE IF ConnExc(Head(cs)) # "none" THEN ConnExc(Head(cs))
    ELSE FirstExc(Tail(cs))

\* broadcast_to_spectators: a lobby entry whose send fails is removed
AfterBroadcast(lob) == SelectSeq(lob, LAMBDA e : conn[e.c] = "open")

\* save_game_state
save_game_state(gs, p1, p2, game_data) ==
    [gs EXCEPT ![p1] = game_data, ![p2] = game_data]

\* a player tuple, and the locals of a handle_clients thread
NoPlayer == [c |-> 0, u |-> ""]
IdleHC ==
    [pc |-> "none", p1 |-> NoPlayer, p2 |-> NoPlayer, initial_state |-> NoState,
     did_resume |-> FALSE, disconnected |-> "", opponent |-> NoPlayer,
     polls |-> 0]

\* ------------------------------------------------- run_two_player_game_online
IdleInst ==
    [pc |-> "idle", io |-> <<0, 0>>, ids |-> <<"", "">>, init |-> NoState,
     m |-> 0, current |-> 0, moves |-> <<0, 0>>, exc |-> "none",
     last |-> "none", told |-> {}, bcast |-> FALSE]

\* a call of run_two_player_game_online(player1_io, player2_io, ..., id1, id2,
\* initial_state)
CallGame(io, ids, initial_state) ==
    [IdleInst EXCEPT !.pc = "start", !.io = io, !.ids = ids,
                     !.init = initial_state]

Running(i) == i.pc \in {"start", "turn", "input"}
InLoop(i) == i.pc \in {"turn", "input"}

\* the match ids some running call or some stored snapshot still refers to
Referenced(ins, gs) ==
    {ins[t].m : t \in {x \in Threads : Running(ins[x])}}
      \cup {gs[u].m : u \in Names}
FreeMatch(ins, gs) ==
    CHOOSE m \in MatchIds :
        /\ m \notin Referenced(ins, gs)
        /\ \A k \in MatchIds : k \notin Referenced(ins, gs) => m <= k
\* boards no call and no snapshot refers to are garbage
Collect(bds, ins, gs) ==
    [m \in MatchIds |-> IF m \in Referenced(ins, gs) THEN bds[m] ELSE NoBoards]

Raise(i, e) ==
    [i EXCEPT !.pc = "raised", !.exc = e, !.last = "exception", !.told = {},
              !.bcast = FALSE]

\* the outcome ev of an input: the connections its notices were written to,
\* and whether broadcast_game_state_to_spectators was called
Event(i, ev, to, bc) == [i EXCEPT !.last = ev, !.told = to, !.bcast = bc]

\* the turn index of the player who acts next (battleship.py:573)
NextTurnKept(current) == current
NextTurn(current) == 1 - current

\* the move counter after the acting player's attempt (battleship.py:518)
CountMove(moves, current) == [moves EXCEPT ![current + 1] = @ + 1]

\* lines 445-473: state from initial_state, or new boards and the welcome
GameBegin(t, b1, b2) ==
    /\ inst[t].pc = "start"
    /\ LET i == inst[t] IN
       IF i.init # NoState
       THEN /\ inst' = [inst EXCEPT ![t] = [i EXCEPT !.pc = "turn",
                           !.m = i.init.m, !.current = i.init.turn,
                           !.moves = i.init.moves]]
            /\ UNCHANGED <<boards, lobby>>
       ELSE LET m == FreeMatch(inst, game_states)
                e == FirstExc(i.io)
            IN /\ MatchIds \ Referenced(inst, game_states) # {}
               /\ boards' = [boards EXCEPT ![m] = <<b1, b2>>]
               /\ inst' = [inst EXCEPT ![t] =
                     IF e # "none" THEN Raise([i EXCEPT !.m = m], e)
                     ELSE [i EXCEPT !.pc = "turn", !.m = m]]
               /\ lobby' = IF e # "none" THEN lobby ELSE AfterBroadcast(lobby)
    /\ UNCHANGED <<call, lobby_lock, conn, game_states, sent, active_players, current_match,
                   game_lock, lm, hc, spectator_threads>>

\* lines 476-482: the prompts of a turn
GamePrompt(t) ==
    /\ inst[t].pc = "turn"
    /\ LET i == inst[t]
           p == i.io[i.current + 1]
           opponent == i.io[2 - i.current]
           e == FirstExc(<<p, opponent>>)
       IN inst' = [inst EXCEPT ![t] =
              IF e # "none" THEN Raise(i, e)
              ELSE [Event(i, "prompt", {}, FALSE) EXCEPT !.pc = "input"]]
    /\ UNCHANGED <<call, lobby_lock, conn, boards, game_states, sent, lobby, active_players,
                   current_match, game_lock, lm, hc, spectator_threads>>

\* lines 565-573: snapshot, then the other player's turn
EndTurnUntold(i, ev) ==
    [Event(i, ev, {i.io[i.current + 1]}, FALSE) EXCEPT
        !.pc = "turn", !.current = NextTurn(i.current)]
EndTurn(i, ev) ==
    [Event(i, ev, {i.io[1], i.io[2]}, TRUE) EXCEPT
        !.pc = "turn", !.current = NextTurn(i.current)]
Snapshot(i, mv) ==
    [m |-> i.m, turn |-> 1 - i.current, moves |-> mv]

\* lines 485-563 and, when the turn ends, 565-573: one input of the acting
\* player (guess = None: timed_input gave None)
GameInput(t, guess) ==
    /\ inst[t].pc = "input"
    /\ LET i == inst[t]
           p == i.io[i.current + 1]
           opponent == i.io[2 - i.current]
           both == FirstExc(<<p, opponent>>)
           pc1 == parse_coordinate(guess)
           \* players[current]["board"]: player 1 fires at board2
           tgt == 2 - i.current
           f == fire_at(boards[i.m][tgt], pc1.row, pc1.col)
           mv == CountMove(i.moves, i.current)
           fired == [i EXCEPT !.moves = mv]
       IN
       /\ conn[p] # "open" => guess = None
       /\ IF guess = None
          THEN /\ inst' = [inst EXCEPT ![t] =
                     IF both # "none" THEN Raise(i, both)
                     ELSE EndTurn(i, "timeout")]
               /\ game_states' = IF both # "none" THEN game_states
                     ELSE save_game_state(game_states, i.ids[1], i.ids[2],
                                          Snapshot(i, i.moves))
               /\ lobby' = IF both # "none" THEN lobby ELSE AfterBroadcast(lobby)
               /\ UNCHANGED boards
          ELSE IF guess = <<>>
          THEN /\ inst' = [inst EXCEPT ![t] =
                     IF ConnExc(p) # "none" THEN Raise(i, ConnExc(p))
                     ELSE Event(i, "empty", {p}, FALSE)]
               /\ UNCHANGED <<boards, game_states, lobby>>
          ELSE IF StrLower(guess) = <<"q", "u", "i", "t">>
          THEN /\ inst' = [inst EXCEPT ![t] =
                     IF both # "none" THEN Raise(i, both)
                     ELSE [Event(i, "quit", {p, opponent}, TRUE) EXCEPT
                              !.pc = "returned"]]
               /\ lobby' = IF both # "none" THEN lobby ELSE AfterBroadcast(lobby)
               /\ UNCHANGED <<boards, game_states>>
          ELSE IF pc1.exc = "IndexError"
          THEN /\ inst' = [inst EXCEPT ![t] = Raise(i, "IndexError")]
               /\ UNCHANGED <<boards, game_states, lobby>>
          ELSE IF pc1.exc = "ValueError"
          THEN \* except ValueError: "Invalid input" to the acting player
               /\ inst' = [inst EXCEPT ![t] =
                     IF ConnExc(p) # "none" THEN Raise(i, ConnExc(p))
                     ELSE Event(i, "parse_error", {p}, FALSE)]
               /\ UNCHANGED <<boards, game_states, lobby>>
          ELSE IF ~(InRange(pc1.row) /\ InRange(pc1.col))
          THEN \* hidden_grid[row][col] raises IndexError
               /\ inst' = [inst EXCEPT ![t] = Raise(i, "IndexError")]
               /\ UNCHANGED <<boards, game_states, lobby>>
          ELSE /\ i.moves[1] + i.moves[2] < MaxShots
               /\ boards' = [boards EXCEPT ![i.m][tgt] = f.board]
               /\ LET \* the notices of lines 520-558 are inside the try: a
                      \* ValueError of a closed file is caught at line 562
                      e == IF f.result = "already_shot" THEN ConnExc(p) ELSE both
                      caught == e = "ValueError" /\ ConnExc(p) = "none"
                  IN
                  IF e = "OSError" \/ (e = "ValueError" /\ ~caught)
                  THEN /\ inst' = [inst EXCEPT ![t] = Raise(fired, e)]
                       /\ UNCHANGED <<game_states, lobby>>
                  ELSE IF caught
                  THEN /\ inst' = [inst EXCEPT ![t] =
                             Event(fired, "value_error", {p}, FALSE)]
                       /\ UNCHANGED <<game_states, lobby>>
                  ELSE IF f.result = "already_shot"
                  THEN /\ inst' = [inst EXCEPT ![t] =
                             Event(fired, "already_shot", {p}, FALSE)]
                       /\ UNCHANGED <<game_states, lobby>>
                  ELSE IF f.result = "hit" /\ all_ships_sunk(f.board)
                  THEN /\ inst' = [inst EXCEPT ![t] =
                             [Event(fired, "win", {p, opponent}, TRUE) EXCEPT
                                 !.pc = "returned"]]
                       /\ lobby' = AfterBroadcast(lobby)
                       /\ UNCHANGED game_states
                  ELSE /\ inst' = [inst EXCEPT ![t] = EndTurn(fired, f.result)]
                       /\ game_states' = save_game_state(game_states,
                             i.ids[1], i.ids[2], Snapshot(i, mv))
                       /\ lobby' = AfterBroadcast(lobby)
    /\ UNCHANGED <<call, lobby_lock, conn, sent, active_players, current_match, game_lock, lm,
                   hc, spectator_threads>>

\* the peer of an open connection goes away
Sever(c) ==
    /\ conn[c] = "open"
    /\ Cardinality({k \in Conns : conn[k] = "severed"}) < MaxSevered
    /\ conn' = [conn EXCEPT ![c] = "severed"]
    /\ UNCHANGED <<call, lobby_lock, boards, inst, game_states, sent, lobby, active_players,
                   current_match, game_lock, lm, hc, spectator_threads>>

\* --------------------------------------- the match protocol on its own
\* lines a player can send in the match
Guesses ==
    { <<"A", "1">>, <<"a", "2">>, <<"D", "1">>, <<"A", "x">>, <<"A", "0">>,
      <<"q", "u", "i", "t">> }

MatchThread == <<"hc", 1>>

InitMatch ==
    /\ conn = [c \in Conns |-> IF c <= 2 THEN "open" ELSE "unused"]
    /\ boards = [m \in MatchIds |-> NoBoards]
    /\ inst = [t \in Threads |->
                 IF t = MatchThread
                 THEN CallGame(<<1, 2>>, <<"a", "b">>, NoState) ELSE IdleInst]
    /\ game_states = [u \in Names |-> NoState]
    /\ sent = {}
    /\ lobby = <<>>
    /\ active_players = [u \in Names |-> "absent"]
    /\ current_match = [u \in Names |-> <<NoPlayer, NoPlayer>>]
    /\ game_lock = 0
    /\ lobby_lock = Unlocked
    /\ lm = [c \in Conns |-> [pc |-> "none", u |-> ""]]
    /\ hc = [h \in HCIds |-> IdleHC]
    /\ spectator_threads = {}
    /\ call = NoCall

NextMatch ==
    \/ \E b1 \in Placements, b2 \in Placements : GameBegin(MatchThread, b1, b2)
    \/ GamePrompt(MatchThread)
    \/ \E g \in Guesses \cup {None} : GameInput(MatchThread, g)

SpecMatch == InitMatch /\ [][NextMatch]_vars

\* ------------------------------------------------------------- server.py
HCThread(h) == <<"hc", h>>
Orphan(c) == <<"lm", c>>

\* lines 179-199: the finally block of handle_clients
\* (closes both players' files and sockets, drops their bookkeeping)
CleanupConn(h) ==
    [c \in Conns |->
        IF ~hc[h].did_resume /\ c \in {hc[h].p1.c, hc[h].p2.c}
        THEN "closed" ELSE conn[c]]
CleanupActiveForgotten(h) == active_players
CleanupActive(h) ==
    [u \in Names |->
        IF ~hc[h].did_resume /\ u \in {hc[h].p1.u, hc[h].p2.u}
        THEN "absent" ELSE active_players[u]]
CleanupStates(h) ==
    [u \in Names |->
        IF ~hc[h].did_resume /\ u \in {hc[h].p1.u, hc[h].p2.u}
        THEN NoState ELSE game_states[u]]

\* handle_clients leaves `with game_lock` through the finally block; goto is
\* "launch" when line 201 is reached and "dead" when an exception escapes
Finish(h, goto, lob, snt) ==
    LET ins == [inst EXCEPT ![HCThread(h)] = IdleInst]
    IN /\ conn' = CleanupConn(h)
       /\ active_players' = CleanupActive(h)
       /\ game_states' = CleanupStates(h)
       /\ inst' = ins
       /\ boards' = Collect(boards, ins, CleanupStates(h))
       /\ game_lock' = 0
       /\ hc' = [hc EXCEPT ![h] = [IdleHC EXCEPT !.pc = goto,
                    !.p1 = hc[h].p1, !.p2 = hc[h].p2,
                    !.did_resume = hc[h].did_resume]]
       /\ lobby' = lob
       /\ sent' = snt
       /\ UNCHANGED <<call, lobby_lock, current_match, lm, spectator_threads>>

\* lines 90-107: the lock, the bookkeeping and the first call of the match
HC_Acquire(h) ==
    /\ hc[h].pc = "wait_lock"
    /\ game_lock = 0
    /\ game_lock' = h
    /\ LET p1 == hc[h].p1
           p2 == hc[h].p2
           initial_state == game_states[p1.u]
       IN /\ current_match' = [u \in Names |->
                IF u \in {p1.u, p2.u} THEN <<p1, p2>> ELSE current_match[u]]
          /\ active_players' = [u \in Names |->
                IF u \in {p1.u, p2.u} THEN "active" ELSE active_players[u]]
          /\ hc' = [hc EXCEPT ![h] = [@ EXCEPT !.pc = "game",
                                       !.initial_state = initial_state]]
          /\ inst' = [inst EXCEPT ![HCThread(h)] =
                CallGame(<<p1.c, p2.c>>, <<p1.u, p2.u>>, initial_state)]
    /\ UNCHANGED <<call, lobby_lock, conn, boards, game_states, sent, lobby, lm,
                   spectator_threads>>

\* lines 135-157: a connection error came out of the try block
DetectDisconnect(h) ==
    /\ LET p1 == hc[h].p1
           p2 == hc[h].p2
           player1_connected == ConnExc(p1.c) = "none"
           player2_connected == ConnExc(p2.c) = "none"
           disconnected == IF ~player1_connected THEN p1.u ELSE p2.u
           opponent == IF ~player1_connected THEN p2 ELSE p1
       IN /\ sent' = sent
                \cup (IF player1_connected THEN {<<p1.c, "ping">>} ELSE {})
                \cup (IF player2_connected THEN {<<p2.c, "ping">>} ELSE {})
          /\ active_players' = [active_players EXCEPT ![disconnected] = "inactive"]
          /\ hc' = [hc EXCEPT ![h] = [@ EXCEPT !.pc = "grace",
                       !.disconnected = disconnected, !.opponent = opponent,
                       !.polls = 0]]
    /\ inst' = [inst EXCEPT ![HCThread(h)] = IdleInst]
    /\ UNCHANGED <<call, lobby_lock, conn, boards, game_states, lobby, current_match, game_lock,
                   lm, spectator_threads>>

\* the first call raised: lines 135-157 for a connection error, the finally
\* block alone for any other exception
HC_GameRaised(h) ==
    /\ hc[h].pc = "game"
    /\ inst[HCThread(h)].pc = "raised"
    /\ IF inst[HCThread(h)].exc = "OSError"
       THEN DetectDisconnect(h)
       ELSE Finish(h, "dead", lobby, sent)

\* lines 109-133: the match returned; both are asked whether to play again
\* (response = None: recv_with_checksum gave None, unpacking it raises)
HC_PlayAgain(h, response1, response2) ==
    /\ hc[h].pc = "game"
    /\ inst[HCThread(h)].pc = "returned"
    /\ LET p1 == hc[h].p1
           p2 == hc[h].p2
           e == FirstExc(<<p1.c, p2.c>>)
       IN IF e = "OSError" THEN DetectDisconnect(h)
          ELSE IF e = "ValueError" \/ response1 = None \/ response2 = None
          THEN Finish(h, "dead", lobby, sent)
          ELSE IF response1 = <<"yes">> /\ response2 = <<"yes">>
          THEN /\ game_states' = [game_states EXCEPT ![p1.u] = NoState,
                                                    ![p2.u] = NoState]
               /\ inst' = [inst EXCEPT ![HCThread(h)] =
                     CallGame(<<p1.c, p2.c>>, <<p1.u, p2.u>>,
                              hc[h].initial_state)]
               /\ boards' = Collect(boards, inst',  game_states')
               /\ UNCHANGED <<call, lobby_lock, conn, sent, lobby, active_players,
                              current_match, game_lock, lm, hc,
                              spectator_threads>>
          ELSE Finish(h, "launch",
                 lobby \o (IF response1 = <<"yes">> THEN <<p1>> ELSE <<>>)
                       \o (IF response2 = <<"yes">> THEN <<p2>> ELSE <<>>),
                 sent)

\* lines 159-174: one poll of the grace window
HC_Poll(h) ==
    /\ hc[h].pc = "grace"
    /\ hc[h].polls < RECONNECT_TIMEOUT
    /\ LET disconnected == hc[h].disconnected
           re_p1 == current_match[disconnected][1]
           c1 == hc[h].p1.c
           c2 == hc[h].p2.c
           io == IF re_p1.u = disconnected THEN <<c1, c2>> ELSE <<c2, c1>>
       IN IF active_players[disconnected] = "active"
          THEN /\ hc' = [hc EXCEPT ![h] = [@ EXCEPT !.pc = "resumed",
                                               !.did_resume = TRUE]]
               /\ inst' = [inst EXCEPT ![HCThread(h)] =
                     CallGame(io, <<hc[h].p1.u, hc[h].p2.u>>,
                              game_states[disconnected])]
          ELSE /\ hc' = [hc EXCEPT ![h] = [@ EXCEPT !.polls = @ + 1]]
               /\ UNCHANGED inst
    /\ UNCHANGED <<call, lobby_lock, conn, boards, game_states, sent, lobby, active_players,
                   current_match, game_lock, lm, spectator_threads>>

\* lines 176-199 once the loop has run out: the default win and the cleanup
HC_Expire(h) ==
    /\ hc[h].pc = "grace"
    /\ hc[h].polls = RECONNECT_TIMEOUT
    /\ IF ConnExc(hc[h].opponent.c) = "none"
       THEN Finish(h, "launch", lobby,
                   sent \cup {<<hc[h].opponent.c, "default_win">>})
       ELSE Finish(h, "dead", lobby, sent)

\* lines 174-199 after the resumed call: break, line 177, the finally block
HC_ResumedEnd(h) ==
    /\ hc[h].pc = "resumed"
    /\ inst[HCThread(h)].pc \in {"returned", "raised"}
    /\ IF inst[HCThread(h)].pc = "returned"
          /\ ConnExc(hc[h].opponent.c) = "none"
       THEN Finish(h, "launch", lobby,
                   sent \cup {<<hc[h].opponent.c, "default_win">>})
       ELSE Finish(h, "dead", lobby, sent)

\* lines 305-318 (hc0: the thread table with the caller's own step taken)
launch_game_if_readyOnePop(hc0) ==
    IF Len(lobby) >= 2 /\ game_lock = 0
    THEN LET player1 == lobby[1]
             player2 == lobby[2]
             h == CHOOSE x \in HCIds :
                    /\ hc[x].pc = "none"
                    /\ \A y \in HCIds : hc[y].pc = "none" => x <= y
         IN /\ \E x \in HCIds : hc[x].pc = "none"
            /\ lobby' = SubSeq(lobby, 2, Len(lobby))
            /\ IF FirstExc(<<player1.c, player2.c>>) = "none"
               THEN /\ spectator_threads' =
                          spectator_threads \ {player1.u, player2.u}
                    /\ hc' = [hc0 EXCEPT ![h] = [IdleHC EXCEPT
                          !.pc = "wait_lock", !.p1 = player1, !.p2 = player2]]
               ELSE /\ hc' = hc0
                    /\ UNCHANGED spectator_threads
    ELSE /\ hc' = hc0
         /\ UNCHANGED <<lobby, spectator_threads>>
launch_game_if_ready(hc0) ==
    IF Len(lobby) >= 2 /\ game_lock = 0
    THEN LET player1 == lobby[1]
             player2 == lobby[2]
             h == CHOOSE x \in HCIds :
                    /\ hc[x].pc = "none"
                    /\ \A y \in HCIds : hc[y].pc = "none" => x <= y
         IN /\ \E x \in HCIds : hc[x].pc = "none"
            /\ lobby' = SubSeq(lobby, 3, Len(lobby))
            /\ IF FirstExc(<<player1.c, player2.c>>) = "none"
               THEN /\ spectator_threads' =
                          spectator_threads \ {player1.u, player2.u}
                    /\ hc' = [hc0 EXCEPT ![h] = [IdleHC EXCEPT
                          !.pc = "wait_lock", !.p1 = player1, !.p2 = player2]]
               ELSE /\ hc' = hc0
                    /\ UNCHANGED spectator_threads
    ELSE /\ hc' = hc0
         /\ UNCHANGED <<lobby, spectator_threads>>

\* line 201
HC_Launch(h) ==
    /\ hc[h].pc = "launch"
    /\ launch_game_if_ready([hc EXCEPT ![h] = [@ EXCEPT !.pc = "done"]])
    /\ UNCHANGED <<call, lobby_lock, conn, boards, inst, game_states, sent, active_players,
                   current_match, game_lock, lm>>

\* main(), lines 331-334: a connection is accepted and gets its thread
Accept(c) ==
    /\ conn[c] = "unused"
    /\ \A k \in Conns : k < c => conn[k] # "unused"
    /\ conn' = [conn EXCEPT ![c] = "open"]
    /\ lm' = [lm EXCEPT ![c] = [pc |-> "prompt", u |-> ""]]
    /\ UNCHANGED <<call, lobby_lock, boards, inst, game_states, sent, lobby, active_players,
                   current_match, game_lock, hc, spectator_threads>>

\* lines 253-257
UsernameTaken(username) ==
    LET username_taken_in_lobby ==
            \E k \in 1..Len(lobby) : lobby[k].u = username
        username_in_active_players == active_players[username] # "absent"
        all_players_still_active ==
            \A u \in Names : active_players[u] # "inactive"
    IN username_taken_in_lobby
         \/ (username_in_active_players /\ all_players_still_active)

\* lines 246-260: one round of the username prompt
\* (username = None: recv_with_checksum gave None, unpacking it raises)
LM_Username(c, username) ==
    /\ lm[c].pc = "prompt"
    /\ lm' = [lm EXCEPT ![c] =
          IF ConnExc(c) # "none" \/ username = None
          THEN [pc |-> "dead", u |-> ""]
          ELSE IF UsernameTaken(username[1]) THEN lm[c]
          ELSE [pc |-> "check", u |-> username[1]]]
    /\ sent' = IF ConnExc(c) = "none" /\ username # None
                  /\ UsernameTaken(username[1])
               THEN sent \cup {<<c, "taken">>} ELSE sent
    /\ UNCHANGED <<call, lobby_lock, conn, boards, inst, game_states, lobby, active_players,
                   current_match, game_lock, hc, spectator_threads>>

\* lines 263-289: a player inside its grace window is reattached
LM_Check(c) ==
    /\ lm[c].pc = "check"
    /\ LET username == lm[c].u
           p1 == current_match[username][1]
           p2 == current_match[username][2]
           resume_opp == IF p1.u = username THEN p2 ELSE p1
       IN IF ConnExc(c) # "none"
          THEN /\ lm' = [lm EXCEPT ![c] = [pc |-> "dead", u |-> username]]
               /\ UNCHANGED <<active_players, inst>>
          ELSE IF active_players[username] = "inactive" /\ game_lock # 0
                  /\ game_states[username] # NoState
          THEN /\ active_players' = [active_players EXCEPT ![username] = "active"]
               /\ inst' = [inst EXCEPT ![Orphan(c)] =
                     CallGame(<<c, resume_opp.c>>, <<p1.u, p2.u>>,
                              game_states[username])]
               /\ lm' = [lm EXCEPT ![c] = [pc |-> "done", u |-> username]]
          ELSE /\ lm' = [lm EXCEPT ![c] = [pc |-> "enqueue", u |-> username]]
               /\ UNCHANGED <<active_players, inst>>
    /\ UNCHANGED <<call, lobby_lock, conn, boards, game_states, sent, lobby, current_match,
                   game_lock, hc, spectator_threads>>

\* line 293: the test that admits a waiting player
RoomOrUnlocked(lob, lock) == Len(lob) < 2 \/ lock = 0
RoomAndUnlocked(lob, lock) == Len(lob) < 2 /\ lock = 0

\* lines 292-301: waiting player or spectator
LM_Enqueue(c) ==
    /\ lm[c].pc = "enqueue"
    /\ IF ConnExc(c) # "none"
       THEN /\ lm' = [lm EXCEPT ![c] = [@ EXCEPT !.pc = "dead"]]
            /\ UNCHANGED <<lobby, spectator_threads>>
       ELSE /\ lm' = [lm EXCEPT ![c] = [@ EXCEPT !.pc = "launch"]]
            /\ lobby' = Append(lobby, [c |-> c, u |-> lm[c].u])
            /\ spectator_threads' =
                  IF RoomAndUnlocked(lobby, game_lock) THEN spectator_threads
                  ELSE spectator_threads \cup {lm[c].u}
    /\ UNCHANGED <<call, lobby_lock, conn, boards, inst, game_states, sent, active_players,
                   current_match, game_lock, hc>>

\* line 302
LM_Launch(c) ==
    /\ lm[c].pc = "launch"
    /\ launch_game_if_ready(hc)
    /\ lm' = [lm EXCEPT ![c] = [@ EXCEPT !.pc = "done"]]
    /\ UNCHANGED <<call, lobby_lock, conn, boards, inst, game_states, sent, active_players,
                   current_match, game_lock>>

\* what the clients send to the server
Usernames == {<<"a">>, <<"b">>}
Responses == {<<"yes">>, <<"no">>}
ServerGuesses == {<<"q", "u", "i", "t">>}
\* the placements drawn in the server runs: the ship lies on A1-A2
ServerPlacements ==
    {b \in Placements : b.hidden[<<0, 0>>] = "S" /\ b.hidden[<<0, 1>>] = "S"}

Init ==
    /\ conn = [c \in Conns |-> "unused"]
    /\ boards = [m \in MatchIds |-> NoBoards]
    /\ inst = [t \in Threads |-> IdleInst]
    /\ game_states = [u \in Names |-> NoState]
    /\ sent = {}
    /\ lobby = <<>>
    /\ active_players = [u \in Names |-> "absent"]
    /\ current_match = [u \in Names |-> <<NoPlayer, NoPlayer>>]
    /\ game_lock = 0
    /\ lobby_lock = Unlocked
    /\ lm = [c \in Conns |-> [pc |-> "none", u |-> ""]]
    /\ hc = [h \in HCIds |-> IdleHC]
    /\ spectator_threads = {}
    /\ call = NoCall

\* the lobby_manager threads and the clients behind them
Admission ==
    \/ \E c \in Accepted : Accept(c)
    \/ \E c \in Conns : Sever(c)
    \/ \E c \in Conns, u \in Usernames \cup {None} : LM_Username(c, u)
    \/ \E c \in Conns : LM_Check(c)
    \/ \E c \in Conns : LM_Enqueue(c)
    \/ \E c \in Conns : LM_Launch(c)

\* the handle_clients threads, but for the play-again exchange
Supervision ==
    \/ \E h \in HCIds : HC_Acquire(h)
    \/ \E h \in HCIds : HC_GameRaised(h)
    \/ \E h \in HCIds : HC_Poll(h)
    \/ \E h \in HCIds : HC_Expire(h)
    \/ \E h \in HCIds : HC_ResumedEnd(h)
    \/ \E h \in HCIds : HC_Launch(h)

\* the calls of run_two_player_game_online, the players sending from G
Play(G) ==
    \/ \E t \in Threads, b1 \in ServerPlacements, b2 \in ServerPlacements :
          GameBegin(t, b1, b2)
    \/ \E t \in Threads : GamePrompt(t)
    \/ \E t \in Threads, g \in G : GameInput(t, g)

Next ==
    \/ Admission
    \/ Supervision
    \/ \E h \in HCIds, r1 \in Responses \cup {None}, r2 \in Responses \cup {None} :
          HC_PlayAgain(h, r1, r2)
    \/ Play(ServerGuesses \cup {None})

Spec == Init /\ [][Next]_vars

\* A match of a (connection 1) and b (connection 2) has just been launched
\* and one more client is connected; no further connection arrives and the
\* players never quit, so that the match ends only by a crash or by the
\* expiry of a grace window.
InitGrace ==
    /\ conn = [c \in Conns |-> IF c <= 3 THEN "open" ELSE "unused"]
    /\ boards = [m \in MatchIds |-> NoBoards]
    /\ inst = [t \in Threads |-> IdleInst]
    /\ game_states = [u \in Names |-> NoState]
    /\ sent = {}
    /\ lobby = <<>>
    /\ active_players = [u \in Names |-> "absent"]
    /\ current_match = [u \in Names |-> <<NoPlayer, NoPlayer>>]
    /\ game_lock = 0
    /\ lobby_lock = Unlocked
    /\ lm = [c \in Conns |->
               IF c = 1 THEN [pc |-> "done", u |-> "a"]
               ELSE IF c = 2 THEN [pc |-> "done", u |-> "b"]
               ELSE IF c = 3 THEN [pc |-> "prompt", u |-> ""]
               ELSE [pc |-> "none", u |-> ""]]
    /\ hc = [h \in HCIds |->
               IF h = 1 THEN [IdleHC EXCEPT !.pc = "wait_lock",
                                 !.p1 = [c |-> 1, u |-> "a"],
                                 !.p2 = [c |-> 2, u |-> "b"]]
               ELSE IdleHC]
    /\ spectator_threads = {}
    /\ call = NoCall

GraceGuesses == {<<"A", "1">>}

NextGrace ==
    \/ \E c \in Conns : Sever(c)
    \/ \E c \in Conns, u \in Usernames \cup {None} : LM_Username(c, u)
    \/ \E c \in Conns : LM_Check(c)
    \/ \E c \in Conns : LM_Enqueue(c)
    \/ \E c \in Conns : LM_Launch(c)
    \/ Supervision
    \/ Play(GraceGuesses \cup {None})

SpecGrace == InitGrace /\ [][NextGrace]_vars

\* N clients connect, each under a username of its own, and are admitted in
\* any interleaving; every connection stays healthy, the matches end by a
\* player quitting and the players answer the play-again question from R.
LobbyName(c) == <<"a", "b", "c", "d">>[c]

NextLobby(R) ==
    \/ \E c \in Accepted : Accept(c)
    \/ \E c \in Accepted : LM_Username(c, <<LobbyName(c)>>)
    \/ \E c \in Conns : LM_Check(c)
    \/ \E c \in Conns : LM_Enqueue(c)
    \/ \E c \in Conns : LM_Launch(c)
    \/ \E h \in HCIds : HC_Acquire(h)
    \/ \E h \in HCIds : HC_Launch(h)
    \/ \E h \in HCIds, r1 \in R, r2 \in R : HC_PlayAgain(h, r1, r2)
    \/ Play(ServerGuesses)

\* nobody asks for another match
SpecLobby == Init /\ [][NextLobby({<<"no">>})]_vars

\* the players may ask for another match or to go back to the lobby
SpecRequeue == Init /\ [][NextLobby(Responses)]_vars

\* Five clients: a and b play while a second client named a and a client c
\* queue up; a's connection breaks and its owner connects again.
StaleName(c) == <<"a", "b", "a", "c", "a">>[c]

NextStale ==
    \/ \E c \in 1..5 : Accept(c)
    \/ hc[2].pc = "wait_lock" /\ Sever(1)
    \/ \E c \in 1..4 : /\ \A k \in 1..(c - 1) : lm[k].pc # "prompt"
                       /\ LM_Username(c, <<StaleName(c)>>)
    \/ conn[1] = "severed" /\ LM_Username(5, <<StaleName(5)>>)
    \/ \E c \in Conns : LM_Check(c)
    \/ \E c \in Conns : LM_Enqueue(c)
    \/ \E c \in Conns : LM_Launch(c)
    \/ Supervision
    \/ Play({None})

SpecStale == Init /\ [][NextStale]_vars

\* ------------------------------------------------ the two locks, step by step
\* Every "with lobby_lock:" is two steps here, the acquisition and the body
\* with the release; every connection stays healthy.

\* lines 293 and 307: game_lock.locked() returns at once, held or not
\* (game_lock.acquire() would return only once the lock is free)
acquire_returns(lock) == lock = 0
locked_returns(lock) == TRUE

\* line 292
LM_LobbyLock(c) ==
    /\ lm[c].pc = "enqueue"
    /\ lobby_lock = Unlocked
    /\ lobby_lock' = Orphan(c)
    /\ lm' = [lm EXCEPT ![c] = [@ EXCEPT !.pc = "enqueue_locked"]]
    /\ UNCHANGED <<call, conn, boards, inst, game_states, sent, lobby,
                   active_players, current_match, game_lock, hc,
                   spectator_threads>>

\* lines 293-301, and the release at the end of the with block
LM_EnqueueLocked(c) ==
    /\ lm[c].pc = "enqueue_locked"
    /\ locked_returns(game_lock)
    /\ IF ConnExc(c) # "none"
       THEN /\ lm' = [lm EXCEPT ![c] = [@ EXCEPT !.pc = "dead"]]
            /\ UNCHANGED <<lobby, spectator_threads>>
       ELSE /\ lm' = [lm EXCEPT ![c] = [@ EXCEPT !.pc = "launch"]]
            /\ lobby' = Append(lobby, [c |-> c, u |-> lm[c].u])
            /\ spectator_threads' =
                  IF RoomAndUnlocked(lobby, game_lock) THEN spectator_threads
                  ELSE spectator_threads \cup {lm[c].u}
    /\ lobby_lock' = Unlocked
    /\ UNCHANGED <<call, conn, boards, inst, game_states, sent, active_players,
                   current_match, game_lock, hc>>

\* lines 302 and 306
LM_LaunchLock(c) ==
    /\ lm[c].pc = "launch"
    /\ lobby_lock = Unlocked
    /\ lobby_lock' = Orphan(c)
    /\ lm' = [lm EXCEPT ![c] = [@ EXCEPT !.pc = "launch_locked"]]
    /\ UNCHANGED <<call, conn, boards, inst, game_states, sent, lobby,
                   active_players, current_match, game_lock, hc,
                   spectator_threads>>

\* lines 307-318, and the release
LM_LaunchLocked(c) ==
    /\ lm[c].pc = "launch_locked"
    /\ locked_returns(game_lock)
    /\ launch_game_if_ready(hc)
    /\ lm' = [lm EXCEPT ![c] = [@ EXCEPT !.pc = "done"]]
    /\ lobby_lock' = Unlocked
    /\ UNCHANGED <<call, conn, boards, inst, game_states, sent, active_players,
                   current_match, game_lock>>

\* battleship.py, lines 473-555: the match calls broadcast_to_spectators
GameBroadcasts(h) ==
    /\ hc[h].pc = "game"
    /\ hc' = [hc EXCEPT ![h] = [@ EXCEPT !.pc = "broadcast"]]
    /\ UNCHANGED <<call, conn, boards, inst, game_states, sent, lobby,
                   active_players, current_match, game_lock, lm,
                   spectator_threads, lobby_lock>>

\* line 208
BroadcastLock(h) ==
    /\ hc[h].pc = "broadcast"
    /\ lobby_lock = Unlocked
    /\ lobby_lock' = HCThread(h)
    /\ hc' = [hc EXCEPT ![h] = [@ EXCEPT !.pc = "broadcast_locked"]]
    /\ UNCHANGED <<call, conn, boards, inst, game_states, sent, lobby,
                   active_players, current_match, game_lock, lm,
                   spectator_threads>>

\* lines 209-214, and the release
BroadcastLocked(h) ==
    /\ hc[h].pc = "broadcast_locked"
    /\ lobby' = AfterBroadcast(lobby)
    /\ sent' = sent \cup {<<AfterBroadcast(lobby)[k].c, "state">> :
                              k \in 1..Len(AfterBroadcast(lobby))}
    /\ lobby_lock' = Unlocked
    /\ hc' = [hc EXCEPT ![h] = [@ EXCEPT !.pc = "game"]]
    /\ UNCHANGED <<call, conn, boards, inst, game_states, active_players,
                   current_match, game_lock, lm, spectator_threads>>

\* battleship.py, lines 514 and 549: the match returns; lines 109-113
GameReturns(h) ==
    /\ hc[h].pc = "game"
    /\ hc' = [hc EXCEPT ![h] = [@ EXCEPT !.pc = "play_again"]]
    /\ UNCHANGED <<call, conn, boards, inst, game_states, sent, lobby,
                   active_players, current_match, game_lock, lm,
                   spectator_threads, lobby_lock>>

\* lines 117-122 (both answer yes) and 123-126 (one does not)
HC_Answers(h, both_yes) ==
    /\ hc[h].pc = "play_again"
    /\ hc' = [hc EXCEPT ![h] =
          [@ EXCEPT !.pc = IF both_yes THEN "game" ELSE "requeue"]]
    /\ UNCHANGED <<call, conn, boards, inst, game_states, sent, lobby,
                   active_players, current_match, game_lock, lm,
                   spectator_threads, lobby_lock>>

\* line 128: lobby_lock is asked for while game_lock is held
HC_RequeueLock(h) ==
    /\ hc[h].pc = "requeue"
    /\ lobby_lock = Unlocked
    /\ lobby_lock' = HCThread(h)
    /\ hc' = [hc EXCEPT ![h] = [@ EXCEPT !.pc = "requeue_locked"]]
    /\ UNCHANGED <<call, conn, boards, inst, game_states, sent, lobby,
                   active_players, current_match, game_lock, lm,
                   spectator_threads>>

\* lines 129-133, and the release
HC_RequeueLocked(h, response1, response2) ==
    /\ hc[h].pc = "requeue_locked"
    /\ ~(response1 = <<"yes">> /\ response2 = <<"yes">>)
    /\ lobby' = lobby
          \o (IF response1 = <<"yes">> THEN <<hc[h].p1>> ELSE <<>>)
          \o (IF response2 = <<"yes">> THEN <<hc[h].p2>> ELSE <<>>)
    /\ lobby_lock' = Unlocked
    /\ hc' = [hc EXCEPT ![h] = [@ EXCEPT !.pc = "finally"]]
    /\ UNCHANGED <<call, conn, boards, inst, game_states, sent,
                   active_players, current_match, game_lock, lm,
                   spectator_threads>>

\* lines 179-199, and the release of game_lock
HC_Finally(h) ==
    /\ hc[h].pc = "finally"
    /\ Finish(h, "launch", lobby, sent)

\* lines 201 and 306
HC_LaunchLock(h) ==
    /\ hc[h].pc = "launch"
    /\ lobby_lock = Unlocked
    /\ lobby_lock' = HCThread(h)
    /\ hc' = [hc EXCEPT ![h] = [@ EXCEPT !.pc = "launch_locked"]]
    /\ UNCHANGED <<call, conn, boards, inst, game_states, sent, lobby,
                   active_players, current_match, game_lock, lm,
                   spectator_threads>>

\* lines 307-318, and the release
HC_LaunchLocked(h) ==
    /\ hc[h].pc = "launch_locked"
    /\ locked_returns(game_lock)
    /\ launch_game_if_ready([hc EXCEPT ![h] = [@ EXCEPT !.pc = "done"]])
    /\ lobby_lock' = Unlocked
    /\ UNCHANGED <<call, conn, boards, inst, game_states, sent, active_players,
                   current_match, game_lock, lm>>

\* the steps of lobby_manager's threads from line 259 on
LobbyManagerSteps(c) ==
    \/ LM_Check(c)
    \/ LM_LobbyLock(c)
    \/ LM_EnqueueLocked(c)
    \/ LM_LaunchLock(c)
    \/ LM_LaunchLocked(c)

\* the steps of handle_clients' threads
HandleClientsSteps(h) ==
    \/ HC_Acquire(h)
    \/ GameBroadcasts(h)
    \/ BroadcastLock(h)
    \/ BroadcastLocked(h)
    \/ GameReturns(h)
    \/ \E both_yes \in BOOLEAN : HC_Answers(h, both_yes)
    \/ HC_RequeueLock(h)
    \/ \E r1 \in Responses, r2 \in Responses : HC_RequeueLocked(h, r1, r2)
    \/ HC_Finally(h)
    \/ HC_LaunchLock(h)
    \/ HC_LaunchLocked(h)

NextLocks ==
    \/ \E c \in Accepted : Accept(c)
    \/ \E c \in Accepted : LM_Username(c, <<LobbyName(c)>>)
    \/ \E c \in Conns : LobbyManagerSteps(c)
    \/ \E h \in HCIds : HandleClientsSteps(h)

SpecLocks == Init /\ [][NextLocks]_vars

\* ------------------------------------------- the pure functions on their own
\* side of the grid the coordinates are written for
GridSize == 10

\* the variables of the server, which a call of a pure function leaves alone
server == <<conn, boards, inst, game_states, sent, lobby, active_players,
            current_match, game_lock, lm, hc, spectator_threads, lobby_lock>>

\* strings of the coordinate grammar: a letter, then one or two digits
CoordLetters == {"A", "a", "J", "K"}
CoordDigits == {"0", "1", "9"}
CoordStrings ==
    {<<l, d>> : <<l, d>> \in CoordLetters \X CoordDigits}
      \cup {<<l, d, e>> : <<l, d, e>> \in CoordLetters \X CoordDigits \X CoordDigits}

\* ------------------------------------------------------------ the wire codec
\* str(n) of a natural number
RECURSIVE PyStr(_)
PyStr(n) ==
    IF n < 10 THEN <<Chr(48 + n)>> ELSE PyStr(n \div 10) \o <<Chr(48 + (n % 10))>>

Bars(s) == {k \in 1..Len(s) : s[k] = "|"}
\* s.split('|', maxsplit) and s.rsplit('|', maxsplit); maxsplit -1: no limit
RECURSIVE split(_, _)
split(s, maxsplit) ==
    IF maxsplit = 0 \/ Bars(s) = {} THEN <<s>>
    ELSE LET k == CHOOSE x \in Bars(s) : \A y \in Bars(s) : x <= y
         IN <<SubSeq(s, 1, k - 1)>>
              \o split(SubSeq(s, k + 1, Len(s)), maxsplit - 1)
RECURSIVE rsplit(_, _)
rsplit(s, maxsplit) ==
    IF maxsplit = 0 \/ Bars(s) = {} THEN <<s>>
    ELSE LET k == CHOOSE x \in Bars(s) : \A y \in Bars(s) : x >= y
         IN Append(rsplit(SubSeq(s, 1, k - 1), maxsplit - 1),
                   SubSeq(s, k + 1, Len(s)))

\* zlib.crc32 of a text, as a polynomial checksum of its characters: a
\* function of the text alone, which is what the codec relies on
RECURSIVE Checksum(_, _)
Checksum(s, acc) ==
    IF s = <<>> THEN acc
    ELSE Checksum(Tail(s), (31 * acc + Ord(Head(s))) % 65521)
crc32(s) == Checksum(s, 1)

\* the base64 alphabet
B64 ==
    <<"A", "B", "C", "D", "E", "F", "G", "H", "I", "J", "K", "L", "M", "N", "O",
      "P", "Q", "R", "S", "T", "U", "V", "W", "X", "Y", "Z", "a", "b", "c", "d",
      "e", "f", "g", "h", "i", "j", "k", "l", "m", "n", "o", "p", "q", "r", "s",
      "t", "u", "v", "w", "x", "y", "z", "0", "1", "2", "3", "4", "5", "6", "7",
      "8", "9", "+", "/">>
B64Chars == {B64[n] : n \in 1..Len(B64)}
B64Index == [ch \in B64Chars |-> (CHOOSE n \in 1..Len(B64) : B64[n] = ch) - 1]

\* encrypt_message with the random iv drawn as iv: the iv, then the text under
\* a key stream that starts from the iv, all in base64 (AES-CTR is modelled by
\* adding the key stream iv + k to the k-th character)
encrypt_message(message, iv) ==
    LET Byte(k) == (Ord(message[k]) + iv + k) % 128
        Enc(k) == <<B64[(Byte(k) \div 64) + 1], B64[(Byte(k) % 64) + 1]>>
        F[k \in 0..Len(message)] ==
            IF k = 0 THEN <<B64[iv + 1]>> ELSE F[k - 1] \o Enc(k)
    IN F[Len(message)]

\* decrypt_message: [ok, text]; ok is FALSE when the data is no token and
\* b64decode or the utf-8 decoding raises
decrypt_message(data) ==
    LET n == (Len(data) - 1) \div 2
        iv == B64Index[data[1]]
        Byte(k) == 64 * B64Index[data[2 * k]] + B64Index[data[2 * k + 1]]
        Code(k) == (Byte(k) - iv - k) % 128
    IN IF Len(data) = 0 \/ Len(data) % 2 = 0
          \/ (\E k \in 1..Len(data) : data[k] \notin B64Chars)
       THEN [ok |-> FALSE, text |-> <<>>]
       ELSE IF \E k \in 1..n : Byte(k) >= 128 \/ Code(k) < 32 \/ Code(k) > 126
       THEN [ok |-> FALSE, text |-> <<>>]
       ELSE [ok |-> TRUE, text |-> [k \in 1..n |-> Chr(Code(k))]]

\* what a decoder gives its caller: None (ok FALSE), raised (the exception
\* leaves the decoder), or the sequence number and the text; decrypted tells
\* whether decrypt_message was called
Decoded(seq, text) ==
    [ok |-> TRUE, raised |-> FALSE, seq |-> seq, text |-> text,
     decrypted |-> TRUE]
NoneResult(decrypted) ==
    [ok |-> FALSE, raised |-> FALSE, seq |-> 0, text |-> <<>>,
     decrypted |-> decrypted]
Raised(decrypted) ==
    [ok |-> FALSE, raised |-> TRUE, seq |-> 0, text |-> <<>>,
     decrypted |-> decrypted]

\* server.py:24-34: the line written to the client
send_with_checksum(message, iv) ==
    LET encrypted_message == encrypt_message(message, iv)
        checksum == crc32(encrypted_message)
    IN encrypted_message \o <<"|">> \o PyStr(checksum)

\* client.py:60-80: the line written to the server
handle_user_input(user_input, seq_num, iv) ==
    LET encrypted_message == encrypt_message(user_input, iv)
        message_with_seq == PyStr(seq_num) \o <<"|">> \o encrypted_message
        checksum == crc32(message_with_seq)
    IN message_with_seq \o <<"|">> \o PyStr(checksum)

\* server.py:37-65
recv_with_checksum(line) ==
    LET message_with_checksum == Strip(line)
        parts == rsplit(message_with_checksum, 1)
        message_with_seq == parts[1]
        received_checksum == PyInt(parts[2])
        calculated_checksum == crc32(message_with_seq)
        fields == split(message_with_seq, 1)
        seq == PyInt(fields[1])
        plaintext == decrypt_message(fields[2])
    IN IF Len(parts) # 2 \/ ~received_checksum.ok THEN NoneResult(FALSE)
       ELSE IF received_checksum.v # calculated_checksum THEN NoneResult(FALSE)
       ELSE IF Len(fields) # 2 \/ ~seq.ok THEN NoneResult(FALSE)
       ELSE IF ~plaintext.ok THEN NoneResult(TRUE)
       ELSE Decoded(seq.v, plaintext.text)

\* battleship.py:404-411: the worker of timed_input on a line that arrived
timed_input(line) ==
    LET raw_data == Strip(line)
        parts == split(raw_data, -1)
        decrypted_msg == decrypt_message(parts[2])
    IN IF Len(parts) < 2 THEN None
       ELSE IF ~decrypted_msg.ok THEN None
       ELSE decrypted_msg.text

\* client.py:34-51: what receive_messages makes of a line that is not GRID
receive_messages(line0) ==
    LET line == Strip(line0)
        parts == rsplit(line, 2)
        message == decrypt_message(parts[2])
    IN IF Bars(line) = {} THEN Decoded(0, line)
       ELSE IF Len(parts) # 3 THEN Raised(FALSE)
       ELSE IF ~message.ok THEN Raised(TRUE)
       ELSE Decoded(0, message.text)

\* a text is framed by its sender, delivered (as sent, or with one character
\* of the checksum field changed) and decoded by call.fn
Decoders == {"recv_with_checksum", "timed_input", "receive_messages"}
CodecTexts ==
    {<<"a">>, <<"A", "1">>, <<"y", "e", "s">>, <<"[", "P", "I", "N", "G", "]">>}
CodecSeqs == {0, 1}
CodecIVs == {0, 5}
CodecCalls ==
    {[fn |-> d, pc |-> "ready", ret |-> <<>>,
      arg |-> [seq |-> n, text |-> x, iv |-> iv, at |-> at, ch |-> ch]] :
        <<d, n, x, iv, at, ch>> \in
            Decoders \X CodecSeqs \X CodecTexts \X CodecIVs
              \X {"none", "first", "last"} \X {"0", "7", "x"}}

CodecSend ==
    /\ call.fn \in Decoders
    /\ call.pc = "ready"
    /\ call' = [call EXCEPT !.pc = "sent", !.ret =
          IF call.fn = "receive_messages"
          THEN send_with_checksum(call.arg.text, call.arg.iv)
          ELSE handle_user_input(call.arg.text, call.arg.seq, call.arg.iv)]
    /\ UNCHANGED server

\* one character of the checksum field is changed on the way
CodecCorrupt ==
    /\ call.fn \in Decoders
    /\ call.pc = "sent"
    /\ call.arg.at # "none"
    /\ LET parts == rsplit(call.ret, 1)
           k == IF call.arg.at = "first" THEN 1 ELSE Len(parts[2])
       IN /\ parts[2][k] # call.arg.ch
          /\ call' = [call EXCEPT !.pc = "corrupted", !.ret =
                parts[1] \o <<"|">> \o [parts[2] EXCEPT ![k] = call.arg.ch]]
    /\ UNCHANGED server

CodecRecv ==
    /\ call.fn \in Decoders
    /\ \/ call.pc = "sent" /\ call.arg.at = "none"
       \/ call.pc = "corrupted"
    /\ call' = [call EXCEPT !.pc = "done", !.ret =
          IF call.fn = "recv_with_checksum" THEN recv_with_checksum(call.ret)
          ELSE IF call.fn = "receive_messages" THEN receive_messages(call.ret)
          ELSE IF timed_input(call.ret) = None THEN NoneResult(TRUE)
          ELSE Decoded(-1, timed_input(call.ret))]
    /\ UNCHANGED server

\* two calls of parse_coordinate, to compare their results
ParseCalls ==
    {[fn |-> "parse_coordinate", arg |-> <<s1, s2>>, pc |-> "ready", ret |-> <<>>] :
        <<s1, s2>> \in CoordStrings \X CoordStrings}

ParseCall ==
    /\ call.fn = "parse_coordinate"
    /\ call.pc = "ready"
    /\ call' = [call EXCEPT !.pc = "done",
                   !.ret = <<parse_coordinate(call.arg[1]),
                             parse_coordinate(call.arg[2])>>]
    /\ UNCHANGED server

\* the threads of timed_input on one player's rfile (battleship.py:402-420):
\* each call starts a worker that blocks in rfile.readline(); join(timeout)
\* either sees the worker finish or gives up and returns None, and a worker
\* given up on is a daemon thread that stays blocked in readline().
\* arg: the lines in the socket, not yet read; ret: the threads
\*   joined    a worker is being waited for by join(timeout)
\*   blocked   workers given up on and still blocked in readline()
\*   guess     what the last call returned
\*   dropped   lines read by a worker nobody waits for
\*   calls     calls of timed_input made so far
WorkerCalls ==
    {[fn |-> "worker", arg |-> <<>>, pc |-> "idle",
      ret |-> [joined |-> FALSE, blocked |-> 0, guess |-> None,
               dropped |-> <<>>, calls |-> 0]]}

\* the player types a line
WorkerLines == {<<"A", "1">>, <<"a", "2">>}
ClientSendsLine ==
    /\ call.fn = "worker"
    /\ Len(call.arg) + Len(call.ret.dropped) + call.ret.calls < MaxLines
    /\ \E line \in WorkerLines : call' = [call EXCEPT !.arg = Append(@, line)]
    /\ UNCHANGED server

\* lines 413-415: timed_input starts its worker and joins it
TimedInputCall ==
    /\ call.fn = "worker"
    /\ call.pc \in {"idle", "returned"}
    /\ call.ret.calls < MaxCalls
    /\ call' = [call EXCEPT !.pc = "joining", !.ret.joined = TRUE,
                            !.ret.calls = @ + 1]
    /\ UNCHANGED server

\* lines 405-409: one of the workers blocked in readline() gets the line.
\* Which one, when two threads are in readline() on one file object, is not
\* defined: either.
WorkerReadline ==
    /\ call.fn = "worker"
    /\ call.arg # <<>>
    /\ \/ /\ call.ret.joined
          /\ call' = [call EXCEPT !.arg = Tail(@), !.pc = "returned",
                          !.ret.joined = FALSE, !.ret.guess = Head(call.arg)]
       \/ /\ call.ret.blocked > 0
          /\ call' = [call EXCEPT !.arg = Tail(@), !.ret.blocked = @ - 1,
                          !.ret.dropped = Append(@, Head(call.arg))]
    /\ UNCHANGED server

\* lines 415-418: join(timeout) gives up, the worker is still alive
TimedInputTimeout ==
    /\ call.fn = "worker"
    /\ call.pc = "joining"
    /\ call' = [call EXCEPT !.pc = "returned", !.ret.joined = FALSE,
                            !.ret.guess = None, !.ret.blocked = @ + 1]
    /\ UNCHANGED server

InitCalls ==
    /\ conn = [c \in Conns |-> "unused"]
    /\ boards = [m \in MatchIds |-> NoBoards]
    /\ inst = [t \in Threads |-> IdleInst]
    /\ game_states = [u \in Names |-> NoState]
    /\ sent = {}
    /\ lobby = <<>>
    /\ active_players = [u \in Names |-> "absent"]
    /\ current_match = [u \in Names |-> <<NoPlayer, NoPlayer>>]
    /\ game_lock = 0
    /\ lobby_lock = Unlocked
    /\ lm = [c \in Conns |-> [pc |-> "none", u |-> ""]]
    /\ hc = [h \in HCIds |-> IdleHC]
    /\ spectator_threads = {}
    /\ call \in ParseCalls \cup CodecCalls \cup WorkerCalls

NextCalls ==
    \/ ParseCall
    \/ CodecSend
    \/ CodecCorrupt
    \/ CodecRecv
    \/ ClientSendsLine
    \/ TimedInputCall
    \/ WorkerReadline
    \/ TimedInputTimeout

SpecCalls == InitCalls /\ [][NextCalls]_vars

\* ------------------------------------------------------------------ claims
\* the step is an input of the acting player handled by call t
InputStep(t) == inst[t].pc = "input" /\ inst'[t] # inst[t]

\* C1: the turn index flips exactly once after a turn that ends in a miss, a
\* non-winning hit or a timeout, it is unchanged (and the same player stays
\* in the input loop) after already_shot and after a coordinate parse error,
\* and nothing but the end of a turn changes it.
C1_TurnIndexAlternates ==
    [][\A t \in Threads :
          /\ InputStep(t) /\ inst'[t].last \in {"miss", "hit", "timeout"}
               => /\ inst'[t].current = 1 - inst[t].current
                  /\ inst'[t].pc = "turn"
          /\ InputStep(t) /\ inst'[t].last \in {"already_shot", "parse_error"}
               => /\ inst'[t].current = inst[t].current
                  /\ inst'[t].pc = "input"
          /\ inst[t].pc = "turn" => inst'[t].current = inst[t].current]_vars

\* both players have ended a turn with a shot: the index went 0, 1, 0
C1_Witness ==
    /\ inst[MatchThread].pc = "turn"
    /\ inst[MatchThread].last \in {"miss", "hit"}
    /\ inst[MatchThread].moves = <<1, 1>>
    /\ inst[MatchThread].current = 0

\* C10: an attempt answered already_shot changes neither the turn index nor a
\* move counter nor a grid cell, and the same player is prompted again.
C10_AlreadyShotChangesNothing ==
    [][\A t \in Threads :
          InputStep(t) /\ inst'[t].last = "already_shot"
            => /\ inst'[t].current = inst[t].current
               /\ inst'[t].moves = inst[t].moves
               /\ boards' = boards
               /\ inst'[t].pc = "input"]_vars

\* a line that names a cell of the grid: one letter of a row, then the
\* number of a column
NamesACell(line) ==
    LET s == StrUpper(Strip(line))
    IN /\ Len(s) >= 2
       /\ Ord(s[1]) - Ord("A") \in Idx
       /\ PyInt(Tail(s)).ok
       /\ PyInt(Tail(s)).v - 1 \in Idx
InvalidLine(line) ==
    /\ line # None
    /\ StrLower(line) # <<"q", "u", "i", "t">>
    /\ ~NamesACell(line)

\* C11: an input line that is neither quit nor a coordinate of the grid is
\* answered with a parse error sent to the acting player only; the turn
\* index, the grids and the move counters are unchanged and the same player
\* is still awaited, the match still running.
C11_InvalidLineKeepsTheTurn ==
    [][\A t \in Threads, line \in Guesses :
          InvalidLine(line) /\ GameInput(t, line) =>
            /\ inst'[t].last = "parse_error"
            /\ inst'[t].told = {inst[t].io[inst[t].current + 1]}
            /\ inst'[t].pc = "input"
            /\ inst'[t].current = inst[t].current
            /\ inst'[t].moves = inst[t].moves
            /\ boards' = boards]_vars

\* C12: for every string of the coordinate grammar parse_coordinate returns
\* a pair inside the 10x10 grid, strings that differ in more than letter case
\* get different pairs (and strings that differ in case only the same pair),
\* A1 gives (0, 0) and J10 gives (9, 9).
C12_ParseIsABijectionIntoTheGrid ==
    call.fn = "parse_coordinate" /\ call.pc = "done" =>
        LET s == call.arg
            r == call.ret
            Pair(x) == <<x.row, x.col>>
        IN /\ \A k \in {1, 2} :
                /\ r[k].exc = "none"
                /\ r[k].row \in 0..(GridSize - 1)
                /\ r[k].col \in 0..(GridSize - 1)
           /\ Pair(r[1]) = Pair(r[2]) <=> StrUpper(s[1]) = StrUpper(s[2])
           /\ s[1] = <<"A", "1">> => Pair(r[1]) = <<0, 0>>
           /\ s[1] = <<"J", "1", "0">> => Pair(r[1]) = <<GridSize - 1, GridSize - 1>>

\* C13: a line that recv_with_checksum turns into None (checksum mismatch or
\* malformed frame) is discarded: at the username prompt the lobby_manager of
\* that connection stays at the prompt, at the play-again question the
\* handle_clients thread keeps waiting, nothing is sent and the lobby is not
\* changed
C13_BadLineIsDiscarded ==
    [][/\ \A c \in Conns :
             conn[c] = "open" /\ LM_Username(c, None)
             => lm'[c] = lm[c] /\ sent' = sent /\ lobby' = lobby
       /\ \A h \in HCIds, r \in Responses :
             /\ hc[h].pc = "game"
             /\ conn[hc[h].p1.c] = "open"
             /\ conn[hc[h].p2.c] = "open"
             /\ HC_PlayAgain(h, None, r)
             => hc'[h] = hc[h] /\ sent' = sent /\ lobby' = lobby]_vars

\* C16: a turn in which the acting player sends nothing in time is forfeited
\* and nothing more: both players are notified, the spectators get a
\* broadcast, the snapshot is saved with the other player to move, the turn
\* passes, no grid and no move counter changes, and the match goes on
C16_TimeoutForfeitsOneTurn ==
    [][\A t \in Threads :
          InputStep(t) /\ inst'[t].last = "timeout"
          => /\ inst'[t].told = {inst[t].io[1], inst[t].io[2]}
             /\ inst'[t].bcast
             /\ inst'[t].pc = "turn"
             /\ inst'[t].current = 1 - inst[t].current
             /\ inst'[t].moves = inst[t].moves
             /\ boards' = boards
             /\ \A k \in 1..2 :
                   game_states'[inst[t].ids[k]] =
                      [m |-> inst[t].m, turn |-> inst'[t].current,
                       moves |-> inst[t].moves]]_vars

\* the first player let the first turn pass: the second player is to move
\* and the snapshot says so
C16_Witness ==
    /\ inst[MatchThread].last = "timeout"
    /\ inst[MatchThread].pc = "turn"
    /\ inst[MatchThread].current = 1
    /\ inst[MatchThread].moves = <<0, 0>>
    /\ inst[MatchThread].told = {1, 2}
    /\ game_states["a"].turn = 1
    /\ game_states["b"] = game_states["a"]

\* ship cells not yet hit on the grid the acting player of call i fires at
Unsunk(bs, i) ==
    {p \in Cells : bs[i.m][2 - i.current].hidden[p] = "S"}

\* C17: the match is won exactly when a shot of the acting player hits the
\* last ship cell of the opponent's grid that was not yet hit: the call then
\* returns with the turn index as it was and plays no further turn, and a
\* hit that leaves a ship cell is not a win
C17_WonOnTheLastShipCell ==
    [][\A t \in Threads :
          /\ InputStep(t) /\ inst'[t].last = "win"
               => /\ Unsunk(boards, inst[t]) # {}
                  /\ Unsunk(boards', inst[t]) = {}
                  /\ inst'[t].current = inst[t].current
                  /\ inst'[t].pc = "returned"
          /\ InputStep(t) /\ inst'[t].last = "hit"
               => Unsunk(boards', inst[t]) # {}
          /\ inst[t].pc = "returned" => inst'[t] = inst[t]]_vars

\* C24: a board render shows no ship cell that was not hit: each rendered
\* cell is the mark of the shot fired at it (X or o) and '.' for every cell
\* not fired at, whether a ship lies there or not
C24_RendersHideUnhitShips ==
    \A m \in MatchIds : \A k \in 1..Len(boards[m]) :
        LET render == send_board(boards[m][k])
        IN \A r \in 1..BOARD_SIZE, c \in 1..BOARD_SIZE :
              LET shown == render[r][c + 1]
                  cell == boards[m][k].hidden[<<r - 1, c - 1>>]
              IN /\ shown \in {".", "X", "o"}
                 /\ shown = IF cell \in {"X", "o"} THEN cell ELSE "."

\* the board sent with the prompt shows a hit next to a ship cell that is
\* still afloat
C24_Witness ==
    /\ inst[MatchThread].pc = "input"
    /\ \E k \in 1..2 : \E p \in Cells, q \in Cells :
          /\ boards[inst[MatchThread].m][k].display[p] = "X"
          /\ boards[inst[MatchThread].m][k].hidden[q] = "S"

\* C27: when a turn of two players with usernames of their own begins after
\* a completed turn of the same call, the snapshot stored for both is the
\* state the turn begins with: the player about to act, the move counters
\* and (by the match id) the grids as the completed turn left them
C27_SnapshotIsCurrentAtTurnStart ==
    \A t \in Threads :
        /\ inst[t].pc = "turn" /\ inst[t].last # "none"
        /\ inst[t].ids[1] # inst[t].ids[2]
        => \A k \in 1..2 :
              game_states[inst[t].ids[k]] =
                 [m |-> inst[t].m, turn |-> inst[t].current,
                  moves |-> inst[t].moves]

\* C28: after a turn timeout no worker of timed_input stays blocked on the
\* player's rfile, and no line the player sends is read by a worker that
\* nobody waits for
C28_NoReaderLeftBehind ==
    call.fn = "worker"
    => /\ call.pc = "returned" => call.ret.blocked = 0
       /\ call.ret.dropped = <<>>

\* C14: a frame delivered as its sender wrote it is decoded by the receiving
\* side (recv_with_checksum on the server, receive_messages on the client) to
\* the text and the sequence number it was made from.
C14_CodecRoundTrip ==
    /\ call.fn \in {"recv_with_checksum", "receive_messages"}
    /\ call.pc = "done"
    /\ call.arg.at = "none"
    => /\ call.ret.ok
       /\ call.ret.text = call.arg.text
       /\ call.ret.seq = call.arg.seq

\* C15: a frame with one character of its checksum field changed gives None
\* on every receive path of the server, without an exception and without a call
\* of decrypt_message.
C15_BadChecksumIsRejected ==
    /\ call.fn \in {"recv_with_checksum", "timed_input"}
    /\ call.pc = "done"
    /\ call.arg.at # "none"
    => /\ ~call.ret.ok
       /\ ~call.ret.raised
       /\ ~call.ret.decrypted

\* ------------------------------------------------------- claims, server
InLobby(u) == \E k \in 1..Len(lobby) : lobby[k].u = u
InActiveMatch(u) == active_players[u] = "active"
InGraceWindow(u) == active_players[u] = "inactive"

\* the connections of the two players handle_clients thread h was started with
PlayersOf(h) == {hc[h].p1.c, hc[h].p2.c}
\* the handle_clients threads launch_game_if_ready has started
Launched == {h \in HCIds : hc[h].pc # "none"}
\* the connections that have an entry in the lobby
Queued == {lobby[k].c : k \in 1..Len(lobby)}
\* the connections lobby_manager has put into the lobby
Admitted == {c \in Conns : lm[c].pc \in {"launch", "done"}}
\* every lobby_manager is through and every match launched has run
AllRun ==
    /\ \A c \in Accepted : lm[c].pc = "done"
    /\ \A h \in HCIds : hc[h].pc \in {"none", "done"}

C19_UsernameAdmittedOnce ==
    \A j \in 1..Len(lobby), k \in 1..Len(lobby) :
        lobby[j].u = lobby[k].u => j = k

\* C20: launch_game_if_ready never starts a match with a connection that was
\* admitted as a spectator: the two entries it takes from the lobby are
\* waiting players or players who asked to play again
C20_SpectatorsAreNotPromoted ==
    [][(\E c \in Conns : LM_Launch(c)) \/ (\E h \in HCIds : HC_Launch(h))
          => \A k \in 1..Len(lobby) :
                lobby[k].u \in spectator_threads
                => \E j \in 1..Len(lobby') : lobby'[j] = lobby[k]]_vars

\* C21: a connection that is not reattached enters the lobby as a waiting
\* player exactly when the lobby holds fewer than two entries and no match
\* holds game_lock, and as a spectator otherwise; a pair handed to
\* handle_clients is the two oldest entries of the lobby, in their order
C21_AdmissionAndFifoPairing ==
    [][/\ \A c \in Conns :
             conn[c] = "open" /\ LM_Enqueue(c)
             => /\ lobby' = Append(lobby, [c |-> c, u |-> lm[c].u])
                /\ lm[c].u \in spectator_threads'
                     <=> ~(Len(lobby) < 2 /\ game_lock = 0)
       /\ \A h \in HCIds :
             hc[h].pc = "none" /\ hc'[h].pc = "wait_lock"
             => /\ Len(lobby) >= 2
                /\ hc'[h].p1 = lobby[1]
                /\ hc'[h].p2 = lobby[2]
                /\ lobby' = SubSeq(lobby, 3, Len(lobby))]_vars

\* a and b were paired in the order they arrived and c, admitted while
\* their match holds the lock, is a spectator at the head of the lobby
C21_Witness ==
    /\ game_lock # 0
    /\ Len(lobby) = 1
    /\ lobby[1].u \in spectator_threads
    /\ \E h \in HCIds :
          /\ hc[h].pc = "game"
          /\ hc[h].p1.c # lobby[1].c
          /\ hc[h].p2.c # lobby[1].c

\* C22: a connection that presents the username of a player inside its
\* grace window (not still_active while the match holds game_lock) is
\* reattached to that match and is not sent on to the lobby
C22_GraceWindowMeansResume ==
    [][\A c \in Conns :
          /\ lm[c].pc = "check"
          /\ conn[c] = "open"
          /\ active_players[lm[c].u] = "inactive"
          /\ game_lock # 0
          /\ LM_Check(c)
          => /\ lm'[c].pc = "done"
             /\ active_players'[lm[c].u] = "active"
             /\ Running(inst'[Orphan(c)])]_vars

\* C23: a match that is ended by force tells its outcome to everybody: after
\* the acting player's quit both players are notified and the spectators
\* get a broadcast, and when the grace window expires every participant
\* whose connection is open gets the outcome and every open connection in
\* the lobby is written to
C23_ForcedEndIsAnnounced ==
    [][/\ \A t \in Threads :
             InputStep(t) /\ inst'[t].last = "quit"
             => /\ inst'[t].told = {inst[t].io[1], inst[t].io[2]}
                /\ inst'[t].bcast
       /\ \A h \in HCIds :
             hc[h].pc = "grace" /\ HC_Expire(h)
             => /\ \A p \in {hc[h].p1, hc[h].p2} :
                      conn[p.c] = "open" => <<p.c, "default_win">> \in sent'
                /\ \A k \in 1..Len(lobby) :
                      conn[lobby[k].c] = "open"
                      => \E x \in sent' \ sent : x[1] = lobby[k].c]_vars

\* what the play-again answers r1, r2 lead to for the match of thread h
PlayAgainOutcome(h, r1, r2) ==
    IF r1 = <<"yes">> /\ r2 = <<"yes">>
    THEN /\ Running(inst'[HCThread(h)])
         /\ inst'[HCThread(h)].ids = <<hc[h].p1.u, hc[h].p2.u>>
         /\ game_lock' = game_lock
         /\ lobby' = lobby
    ELSE /\ lobby' = lobby \o (IF r1 = <<"yes">> THEN <<hc[h].p1>> ELSE <<>>)
                          \o (IF r2 = <<"yes">> THEN <<hc[h].p2>> ELSE <<>>)
         /\ game_lock' = 0

\* C25: a call of the match protocol that has returned (won or forfeited)
\* is the call of a handle_clients thread that goes on to the play-again
\* exchange; when both connections are open that exchange is the thread's
\* next step and, unless an answer is unreadable, after two yes
\* the same two usernames play again under the lock, otherwise those who
\* said yes are appended to the lobby and the lock is released
C25_PlayAgainAfterEveryMatch ==
    [][/\ \A t \in Threads :
             inst[t].pc = "returned"
             => \E h \in HCIds : t = HCThread(h) /\ hc[h].pc = "game"
       /\ \A h \in HCIds :
          /\ hc[h].pc \in {"game", "resumed"}
          /\ inst[HCThread(h)].pc = "returned"
          /\ conn[hc[h].p1.c] = "open"
          /\ conn[hc[h].p2.c] = "open"
          /\ inst'[HCThread(h)] # inst[HCThread(h)]
          /\ ~\E r \in Responses \cup {None} :
                HC_PlayAgain(h, None, r) \/ HC_PlayAgain(h, r, None)
          => \E r1 \in Responses, r2 \in Responses :
                HC_PlayAgain(h, r1, r2) /\ PlayAgainOutcome(h, r1, r2)]_vars

\* C26: a handle_clients thread that ends while two entries are in the lobby
\* gets the next match launched: no exit path skips launch_game_if_ready
\* (line 201), and when that call finds two entries and the lock free it
\* starts handle_clients for the first two of them
C26_NextPairIsLaunched ==
    [][\A h \in HCIds :
          /\ hc'[h].pc = "dead" /\ hc[h].pc # "dead" => Len(lobby') < 2
          /\ hc[h].pc = "launch" /\ HC_Launch(h)
                /\ Len(lobby) >= 2 /\ game_lock = 0
             => \E x \in HCIds :
                   /\ hc[x].pc = "none"
                   /\ hc'[x].pc = "wait_lock"
                   /\ hc'[x].p1 = lobby[1]
                   /\ hc'[x].p2 = lobby[2]]_vars

\* C29: once the disconnected player has reattached (lobby_manager has set
\* still_active again and resumed the match), the handle_clients thread of
\* that match sends no default-win notice
C29_NoDefaultWinAfterResume ==
    [][\A h \in HCIds :
          /\ hc[h].pc \in {"grace", "resumed"}
          /\ active_players[hc[h].disconnected] = "active"
          /\ hc'[h] # hc[h]
          => <<hc[h].opponent.c, "default_win">> \notin sent' \ sent]_vars

\* C30: the match handle_clients starts for two players just taken from the
\* lobby begins with no initial state (turn index 0, counters 0, boards
\* newly placed), whatever an earlier match has left in game_states
C30_FreshMatchStartsFresh ==
    [][\A h \in HCIds :
          hc[h].pc = "wait_lock" /\ hc'[h].pc = "game"
          => /\ hc'[h].initial_state = NoState
             /\ inst'[HCThread(h)].init = NoState]_vars

\* C31: every entry of the lobby has an open connection; a player whom
\* handle_clients has appended again after a match still has its socket and
\* files open once handle_clients has returned
C31_LobbyEntriesAreOpen ==
    \A k \in 1..Len(lobby) : conn[lobby[k].c] = "open"

\* the positions at which a thread asks for a lock (lines 128, 208, 292, 306
\* for lobby_lock, line 90 for game_lock), and the locks it holds
AsksLobbyLock(t) ==
    IF t[1] = "lm" THEN lm[t[2]].pc \in {"enqueue", "launch"}
    ELSE hc[t[2]].pc \in {"broadcast", "requeue", "launch"}
AsksGameLock(t) == t[1] = "hc" /\ hc[t[2]].pc = "wait_lock"
HoldsLobbyLock(t) == lobby_lock = t
HoldsGameLock(t) == t[1] = "hc" /\ game_lock = t[2]
StepOf(t) ==
    IF t[1] = "lm" THEN LobbyManagerSteps(t[2]) ELSE HandleClientsSteps(t[2])

\* C32: the two locks cannot deadlock: the thread holding lobby_lock never
\* waits for game_lock and can always take its next step; a thread that asks
\* for a lock while holding one asks for lobby_lock and holds game_lock only;
\* whenever a thread waits for a lock, some thread can take a step
C32_LocksCannotDeadlock ==
    /\ \A t \in Threads :
          HoldsLobbyLock(t) => ~AsksGameLock(t) /\ ENABLED StepOf(t)
    /\ \A t \in Threads :
          /\ AsksLobbyLock(t) \/ AsksGameLock(t)
          /\ HoldsLobbyLock(t) \/ HoldsGameLock(t)
          => AsksLobbyLock(t) /\ HoldsGameLock(t) /\ ~HoldsLobbyLock(t)
    /\ (\E t \in Threads : AsksLobbyLock(t) \/ AsksGameLock(t))
          => \E t \in Threads : ENABLED StepOf(t)

\* handle_clients holds game_lock and asks for lobby_lock while a
\* lobby_manager thread holds lobby_lock and is about to test game_lock
C32_Witness ==
    \E h \in HCIds, c \in Conns :
        /\ game_lock = h
        /\ hc[h].pc \in {"broadcast", "requeue"}
        /\ lobby_lock = Orphan(c)
        /\ lm[c].pc = "enqueue_locked"

\* C2: each username is in at most one of the waiting list, an active match
\* and the reconnection grace window.
C2_OnePlacePerUsername ==
    \A u \in Names :
        Cardinality({x \in {"lobby", "match", "grace"} :
            \/ x = "lobby" /\ InLobby(u)
            \/ x = "match" /\ InActiveMatch(u)
            \/ x = "grace" /\ InGraceWindow(u)}) <= 1

\* the handle_clients thread that holds game_lock runs the match of ids
LockCovers(ids) ==
    /\ game_lock \in HCIds
    /\ \E h \in HCIds :
          h = game_lock /\ ids = <<hc[h].p1.u, hc[h].p2.u>>

\* C3: a turn protocol runs only while game_lock is held by the
\* handle_clients thread of that match, so that no second pair can be in a
\* match while it is live or waiting for a reconnect.
C3_MatchRunsUnderGameLock ==
    \A t \in Threads : Running(inst[t]) => LockCovers(inst[t].ids)

\* C4: at most one thread at a time executes the turn loop on the boards of
\* one match.
C4_OneThreadPerMatch ==
    \A t1, t2 \in Threads :
        InLoop(inst[t1]) /\ InLoop(inst[t2]) /\ inst[t1].m = inst[t2].m
          => t1 = t2

\* the calls that resume a match after a reattach: line 171 and line 280
ResumedCall(t) ==
    \/ \E h \in HCIds : t = HCThread(h) /\ hc[h].pc = "resumed"
    \/ \E c \in Conns : t = Orphan(c)
JustBegun(t) == inst[t].pc = "turn" /\ inst[t].last = "none"

\* C5: a resumed match starts with the boards, the turn index and the move
\* counters of the snapshot, and player slot k is still played by username k
\* (its connection is one that presented that username).
C5_ResumeKeepsStateAndSlots ==
    \A t \in Threads :
        ResumedCall(t) /\ JustBegun(t) =>
          /\ inst[t].init # NoState =>
               /\ inst[t].m = inst[t].init.m
               /\ inst[t].current = inst[t].init.turn
               /\ inst[t].moves = inst[t].init.moves
          /\ \A k \in {1, 2} : lm[inst[t].io[k]].u = inst[t].ids[k]

\* the connection the disconnected player of thread h had when it was severed
OldConnection(h) ==
    IF hc[h].p1.u = hc[h].disconnected THEN hc[h].p1.c ELSE hc[h].p2.c

\* C6: no resumed call of the turn protocol uses the file objects of the
\* severed connection for the player that reattached.
C6_ResumeUsesNewConnection ==
    \A h \in HCIds :
        hc[h].pc = "resumed" /\ Running(inst[HCThread(h)])
          => \A k \in {1, 2} : inst[HCThread(h)].io[k] # OldConnection(h)

\* the step in which the grace window of thread h runs out
Expiry(h) ==
    hc[h].pc = "grace" /\ hc[h].polls = RECONNECT_TIMEOUT /\ hc'[h].pc # "grace"

\* C7: when the grace window runs out the opponent, if still connected, is
\* sent the default-win notice, the match ends (the lock is free and, unless
\* the player reattached after the last poll, no call of the match is left),
\* neither username is left in active_players or game_states, and a
\* connection that presents a username without an entry is never resumed:
\* it goes on to the lobby.
C7_ExpiryDiscardsTheMatch ==
    [][/\ \A h \in HCIds : Expiry(h) =>
            /\ conn[hc[h].opponent.c] = "open"
                 => <<hc[h].opponent.c, "default_win">> \in sent'
            /\ game_lock' = 0
            /\ active_players[hc[h].disconnected] = "inactive"
                 => \A t \in Threads : ~Running(inst'[t])
            /\ \A u \in {hc[h].p1.u, hc[h].p2.u} :
                   active_players'[u] = "absent" /\ game_states'[u] = NoState
       /\ \A c \in Conns :
            lm[c].pc = "check" /\ active_players[lm[c].u] = "absent"
              /\ lm'[c] # lm[c]
              => /\ lm'[c].pc \in {"enqueue", "dead"}
                 /\ inst'[Orphan(c)] = inst[Orphan(c)]]_vars

\* the window of a has run out and b has the default win; a connection that
\* presented a is now at the check of line 264, and a has no entry left
C7_Witness ==
    /\ <<2, "default_win">> \in sent
    /\ hc[1].pc \in {"launch", "done"}
    /\ hc[1].p1.u = "a"
    /\ lm[3] = [pc |-> "check", u |-> "a"]
    /\ active_players["a"] = "absent"
    /\ game_states["a"] = NoState

\* C8: when the grace-window wait begins the still-connected opponent has
\* been sent a waiting-for-reconnect notice.
C8_OpponentToldToWait ==
    \A h \in HCIds :
        hc[h].pc = "grace" /\ conn[hc[h].opponent.c] = "open"
          => <<hc[h].opponent.c, "waiting_reconnect">> \in sent

\* C9: whenever handle_clients leaves the match (game_lock is released) both
\* usernames are gone from active_players and game_states and the
\* connection of each participant not returned to the lobby is closed.
C9_CleanupOnEveryExit ==
    [][\A h \in HCIds : game_lock = h /\ game_lock' = 0 =>
          /\ \A u \in {hc[h].p1.u, hc[h].p2.u} :
                active_players'[u] = "absent" /\ game_states'[u] = NoState
          /\ \A p \in {hc[h].p1, hc[h].p2} :
                (\A k \in 1..Len(lobby') : lobby'[k] # p)
                  => conn'[p.c] = "closed"]_vars

====
